---- MODULE Spec2Model ----
(***************************************************************************)
(* Model of tequila/circuit/qpic.py: the parameter label formatter         *)
(* (assign_name), the qpic document builder (export_to_qpic) and the       *)
(* render pipeline (export_to).                                            *)
(*                                                                         *)
(* Text is modelled at two levels.  Gate names, operator letters,         *)
(* directives, display names and labels are sequences of characters, so    *)
(* that upper() and strip() act character by character.  File names are    *)
(* sequences of tokens drawn from Tok; Tok is a prefix- and suffix-free    *)
(* code, so two token sequences are equal exactly when the strings they    *)
(* spell are equal, and Python's split / join / "in" / endswith act on     *)
(* them token by token.  The qpic document is the sequence of the pieces   *)
(* the code appends to `result`, with the newline as a piece of its own,   *)
(* so that lines are recovered by splitting at newlines.                   *)
(* Real numbers are decimal numbers with 8 fractional digits, held as      *)
(* integers in units of 1e-8; a float is the double nearest to one.        *)
(***************************************************************************)
EXTENDS Integers, Sequences, FiniteSets, TLC

VARIABLES
    pc,                            \* position of the running call
    caller,                        \* "assign_name" | "export_to_qpic" | "export_to"
    parameter, label,              \* assign_name: argument and returned label
    circuit, filename,             \* export_to: arguments
    always_use_generators, decompose_control_generators,
    group_together, qubit_names, mark_parametrized_gates,
    system_has_qpic,               \* module-level probe of the renderer
    ftype, fname, fpath, compiled, \* export_to: locals
    qcircuit, qfilename, qfilepath,\* export_to_qpic: arguments
    result, gi,                    \* export_to_qpic: document so far, next gate
    starts,                        \* length of the document before each gate rendered
    folders,                       \* file system: the directories that exist
    fs,                            \* file system: the files written, [path, content]
    calls,                         \* renderer subprocesses started so far
    log                            \* the steps export_to has taken, in order

vars == << pc, caller, parameter, label, circuit, filename,
           always_use_generators, decompose_control_generators,
           group_together, qubit_names, mark_parametrized_gates,
           system_has_qpic, ftype, fname, fpath, compiled,
           qcircuit, qfilename, qfilepath, result, gi, starts, folders, fs, calls,
           log >>

-----------------------------------------------------------------------------
(* Bounds of the model *)

\* longest circuit handed to export_to_qpic directly
MaxGates == 2
\* longest file name, in tokens, handed to export_to
MaxLen == 5

-----------------------------------------------------------------------------
(* Generic sequence helpers *)

RECURSIVE Concat(_)
\* "".join(parts)
Concat(parts) ==
    IF parts = << >> THEN << >> ELSE Head(parts) \o Concat(Tail(parts))

RECURSIVE SplitAcc(_, _, _, _)
SplitAcc(s, sep, cur, acc) ==
    IF s = << >> THEN Append(acc, cur)
    ELSE IF Head(s) = sep
         THEN SplitAcc(Tail(s), sep, << >>, Append(acc, cur))
         ELSE SplitAcc(Tail(s), sep, Append(cur, Head(s)), acc)

\* str.split(sep): the pieces between the separators, empty pieces kept
Split(s, sep) == SplitAcc(s, sep, << >>, << >>)

\* "sep in s"
Contains(s, sep) == \E i \in 1..Len(s) : s[i] = sep

\* seq[:-1]
ButLast(s) == SubSeq(s, 1, Len(s) - 1)

\* seq[-1]
Last(s) == s[Len(s)]

RECURSIVE SeqsUpTo(_, _)
\* all sequences over S of length at most n
SeqsUpTo(S, n) ==
    IF n = 0 THEN { << >> }
    ELSE LET shorter == SeqsUpTo(S, n - 1)
         IN  shorter \cup { Append(s, x) : s \in shorter, x \in S }

RECURSIVE SortedSeq(_)
\* sorted(list(set))
SortedSeq(S) ==
    IF S = {} THEN << >>
    ELSE LET m == CHOOSE x \in S : \A y \in S : x <= y
         IN  << m >> \o SortedSeq(S \ {m})

\* str.upper() of one ASCII character
UpperChar(c) ==
    CASE c = "a" -> "A" [] c = "b" -> "B" [] c = "c" -> "C" [] c = "d" -> "D"
      [] c = "e" -> "E" [] c = "f" -> "F" [] c = "g" -> "G" [] c = "h" -> "H"
      [] c = "i" -> "I" [] c = "j" -> "J" [] c = "k" -> "K" [] c = "l" -> "L"
      [] c = "m" -> "M" [] c = "n" -> "N" [] c = "o" -> "O" [] c = "p" -> "P"
      [] c = "q" -> "Q" [] c = "r" -> "R" [] c = "s" -> "S" [] c = "t" -> "T"
      [] c = "u" -> "U" [] c = "v" -> "V" [] c = "w" -> "W" [] c = "x" -> "X"
      [] c = "y" -> "Y" [] c = "z" -> "Z"
      [] OTHER -> c

\* str.upper() of ASCII text
Upper(s) == [i \in 1..Len(s) |-> UpperChar(s[i])]

RECURSIVE LStrip(_, _)
\* s.lstrip(c): every leading c removed
LStrip(s, c) ==
    IF s # << >> /\ Head(s) = c THEN LStrip(Tail(s), c) ELSE s

RECURSIVE RStrip(_, _)
\* s.rstrip(c): every trailing c removed
RStrip(s, c) ==
    IF s # << >> /\ Last(s) = c THEN RStrip(ButLast(s), c) ELSE s

\* str(d) for one decimal digit
DigitChar(d) == ToString(d)

RECURSIVE Digits(_)
\* str(n) for n >= 0
Digits(n) ==
    IF n < 10 THEN << DigitChar(n) >>
    ELSE Append(Digits(n \div 10), DigitChar(n % 10))

-----------------------------------------------------------------------------
(* assign_name: the parameter label formatter *)

\* numpy.pi = 3.14159265359: the first 8 fractional digits, in units of 1e-8
Pi == 314159265
\* numpy.pi: the next 3 digits, in units of 1e-11
PiMilli == 359
\* atol = 1.e-4, in units of 1e-8
Atol == 10000
\* numpy.isclose's default rtol = 1.e-5, as the divisor 1 / rtol
RtolInv == 100000
\* one unit of the 4th decimal digit, in units of 1e-8
Digit4 == 10000

Abs(v) == IF v < 0 THEN -v ELSE v

\* numpy.pi / i, rounded to the nearest unit
PiOver(i) == (2 * Pi + i) \div (2 * i)

\* numpy.pi / i: whole units of 1e-8, and the rest in units of 1e-11
PiOverUnits(i) == Pi \div i
PiOverMilli(i) == ((Pi % i) * 1000 + PiMilli) \div i

\* a parameter: kind is "tuple", "symbolic" (has extract_variables; names
\* are its variables), "fixed" (FixedVariable; val is its value), "number"
\* (a plain Python number), "None", "other" (anything else), "norepr"
\* (anything else whose repr() raises) or "absent" (the gate has no
\* parameter attribute); repr and str are its repr() and str()
Param(kind, val, names, repr, str) ==
    [kind |-> kind, val |-> val, names |-> names, repr |-> repr, str |-> str]

\* the closeness test with the absolute tolerance alone
IsCloseAbsOnly(a, i) ==
    LET d == a - PiOverUnits(i)
    IN  /\ Abs(d) <= Atol + 1
        /\ Abs(d * 1000 - PiOverMilli(i)) <= Atol * 1000

\* numpy.isclose(a, numpy.pi/i, atol=1.e-4): |a - b| <= atol + rtol * |b|,
\* compared in units of 1e-11
IsClose(a, i) ==
    LET d == a - PiOverUnits(i)
    IN  /\ Abs(d) <= Atol + (PiOverUnits(i) \div RtolInv) + 1
        /\ Abs(d * 1000 - PiOverMilli(i))
              <= Atol * 1000 + (PiOverUnits(i) \div (RtolInv \div 1000))

RECURSIVE JoinReprs(_)
\* ", ".join(repr(v) for v in names)
JoinReprs(names) ==
    IF names = << >> THEN << >>
    ELSE IF Len(names) = 1 THEN Head(names)
    ELSE Head(names) \o << ",", " " >> \o JoinReprs(Tail(names))

\* repr(parameter.extract_variables()).lstrip('[').rstrip(']')
JoinNames(names) ==
    RStrip(LStrip(<< "[" >> \o JoinReprs(names) \o << "]" >>, "["), "]")

\* the 4 digits of n, 0 <= n < 10000
Pad4(n) ==
    << DigitChar(n \div 1000), DigitChar((n \div 100) % 10),
       DigitChar((n \div 10) % 10), DigitChar(n % 10) >>

RECURSIVE Pow2Mod625(_)
\* 2^s modulo 625
Pow2Mod625(s) == IF s = 0 THEN 1 ELSE (2 * Pow2Mod625(s - 1)) % 625

RECURSIVE Log2Floor(_)
Log2Floor(x) == IF x < 2 THEN 0 ELSE 1 + Log2Floor(x \div 2)

RECURSIVE Log2Ceil625(_, _)
\* the least j >= k with n * 2^j >= 625
Log2Ceil625(n, k) ==
    IF n >= 625 THEN k ELSE Log2Ceil625(2 * n, k + 1)

\* for the decimal n / 20000, n odd (a tie of the 4th digit): -1, 0 or 1
\* as the double nearest to it is below, equal to or above it.  The double
\* is round(n * 2^s / 625) / 2^(s + 5), with s placing the quotient in
\* [2^52, 2^53), so the side is that of the remainder of n * 2^s by 625.
DoubleSide(n) ==
    LET s == IF n >= 625 THEN 52 - Log2Floor(n \div 625)
             ELSE 52 + Log2Ceil625(n, 0)
        r == ((n % 625) * Pow2Mod625(s)) % 625
    IN  IF r = 0 THEN 0 ELSE IF 2 * r < 625 THEN -1 ELSE 1

\* the float |v| rounded to 4 fractional digits, as a count of 1e-4:
\* the double's exact value is rounded, ties to even
Round4(a) ==
    LET low == a \div Digit4
        rest == a % Digit4
        half == Digit4 \div 2
        side == DoubleSide(a \div half)
    IN  IF rest < half THEN low
        ELSE IF rest > half THEN low + 1
        ELSE IF side < 0 THEN low
        ELSE IF side > 0 THEN low + 1
        ELSE IF low % 2 = 0 THEN low ELSE low + 1

\* "{:+2.4f}".format(v)
FormatFixed(v) ==
    LET n == Round4(Abs(v))
    IN  << IF v < 0 THEN "-" ELSE "+" >>
            \o Digits(n \div 10000) \o << "." >> \o Pad4(n % 10000)

RECURSIVE FirstClose(_, _)
\* for i in [1,2,3,4]: the first i with isclose(abs(v), pi/i), 0 if none
FirstClose(v, i) ==
    IF i > 4 THEN 0
    ELSE IF IsClose(Abs(v), i) THEN i
    ELSE FirstClose(v, i + 1)

assign_name(p) ==
    IF p.kind = "tuple" THEN << "\\", "t", "h", "e", "t", "a" >>
    ELSE IF p.kind = "symbolic" THEN JoinNames(p.names)
    ELSE IF p.kind = "fixed"
         THEN LET i == FirstClose(p.val, 1)
              IN  IF i # 0
                  THEN << IF p.val < 0 THEN "-" ELSE "+", "\\", "p", "i", "/" >>
                          \o Digits(i)
                  ELSE FormatFixed(p.val)
    ELSE IF p.kind = "norepr" THEN p.str
    ELSE p.repr

-----------------------------------------------------------------------------
(* Circuits and gates, as export_to_qpic reads them *)

\* a Pauli string: the (qubit, operator) items of the mapping, in order
Item(q, op) == [q |-> q, op |-> op]

\* a generator: None, or the sequence of its Pauli strings
NoGenerator == [none |-> TRUE, paulistrings |-> << >>]
Generator(terms) == [none |-> FALSE, paulistrings |-> terms]

NoParameter == Param("absent", 0, << >>, << >>, << >>)
Fixed(v) == Param("fixed", v, << >>, << >>, << >>)
\* a parameter with variables; names are the repr() of each
Symbolic(names) == Param("symbolic", 0, names, << >>, << >>)
\* a plain Python number, given by its repr()
Number(repr) == Param("number", 0, << >>, repr, repr)
NoneParameter == Param("None", 0, << >>, << "N", "o", "n", "e" >>,
                       << "N", "o", "n", "e" >>)

\* a gate: axis is the axis letter, empty when the gate has no angle
\* attribute; a generator of None also stands for a missing attribute
Gate(name, target, control, param, axis, generator) ==
    [name |-> name, target |-> target, control |-> control,
     parameter |-> param, axis |-> axis, generator |-> generator]

Range(s) == { s[i] : i \in 1..Len(s) }

\* gate.is_controlled()
is_controlled(g) == g.control # << >>

\* hasattr(g, "parameter")
HasParameter(g) == g.parameter.kind # "absent"

\* isinstance(g.parameter, numbers.Number): FixedVariable is a float
IsNumber(p) == p.kind \in {"fixed", "number"}

\* hasattr(g, "angle")
HasAngle(g) == g.axis # << >>

RECURSIVE FoldControl(_, _)
\* the terms of a generator multiplied by the projector (1 - Z_c) / 2
FoldControl(terms, c) ==
    IF terms = << >> THEN << >>
    ELSE << Head(terms), Append(Head(terms), Item(c, << "Z" >>)) >>
             \o FoldControl(Tail(terms), c)

RECURSIVE FoldControls(_, _)
FoldControls(terms, control) ==
    IF control = << >> THEN terms
    ELSE FoldControls(FoldControl(terms, Head(control)), Tail(control))

\* gate.make_generator(include_controls)
make_generator(g, include_controls) ==
    IF ~g.generator.none /\ include_controls /\ is_controlled(g)
    THEN Generator(FoldControls(g.generator.paulistrings, g.control))
    ELSE g.generator

\* the qubits a gate acts on
GateQubits(g) == Range(g.target) \cup Range(g.control)

\* circuit.qubits: the sorted qubits of the circuit's gates
Qubits(c) == SortedSeq(UNION { GateQubits(c.gates[i]) : i \in 1..Len(c.gates) })

Circuit(gates) == [gates |-> gates]

-----------------------------------------------------------------------------
(* export_to_qpic: the pieces of the document *)

\* one piece appended to `result`: a and b are colour names, c and d text
Piece(k, q, a, b, c, d) == [k |-> k, q |-> q, a |-> a, b |-> b, c |-> c, d |-> d]

\* "\n"
NL == Piece("nl", -1, "", "", << >>, << >>)
\* "COLOR <name> <r> <g> <b>"
ColorDef(name) == Piece("color", -1, name, "", << >>, << >>)
\* "a<q> W <display name>"
WireDecl(q, display) == Piece("wire", q, "", "", display, << >>)
\* " a<q> P:fill=<gcol>  \textcolor{<tcol>}{<op>} "
Box(q, gcol, tcol, op) == Piece("box", q, gcol, tcol, op, << >>)
\* names[q] + " ", which is also "a{} ".format(q)
Ref(q) == Piece("ref", q, "", "", << >>, << >>)
\* " G $<head>(<label>)$ width=<width> "
GBox(head, lbl, width) == Piece("G", width, "", "", head, lbl)
\* g.name + " "
NameBox(name) == Piece("name", -1, "", "", name, << >>)
\* the grouping directive, e.g. "TOUCH"
Directive(d) == Piece("dir", -1, "", "", d, << >>)
\* not text: the exception raised instead of appending
Raise(exception) == Piece("raise", -1, exception, "", << >>, << >>)

\* building the text raised an exception
Raised(text) == \E i \in 1..Len(text) : text[i].k = "raise"

RECURSIVE Refs(_)
\* for c in qs: result += names[c] + " "
Refs(qs) == IF qs = << >> THEN << >> ELSE << Ref(Head(qs)) >> \o Refs(Tail(qs))

\* group_together: a bool or a string
GroupBool(b) == [isbool |-> TRUE, b |-> b, s |-> << >>]
GroupStr(s) == [isbool |-> FALSE, b |-> FALSE, s |-> s]

\* if group_together is True: group_together = "TOUCH"
NormalizeGroup(g) ==
    IF g.isbool /\ g.b THEN GroupStr(<< "T", "O", "U", "C", "H" >>) ELSE g

\* hasattr(group_together, "upper")
HasUpper(g) == ~g.isbool

\* qubit_names: None, one string, or a list of names
NamesNone == [kind |-> "None", s |-> << >>, l |-> << >>]
NamesStr(s) == [kind |-> "str", s |-> s, l |-> << >>]
NamesList(l) == [kind |-> "list", s |-> << >>, l |-> l]

\* qubit_names after lines 54-57, as the list that is then indexed
DisplayNames(qn, qubits) ==
    IF qn.kind = "None" THEN [i \in 1..Len(qubits) |-> Digits(qubits[i])]
    ELSE IF qn.kind = "str" THEN [i \in 1..Len(qubits) |-> qn.s]
    ELSE qn.l

\* the wire loop runs into an IndexError
WireIndexError(qn, qubits) == Len(DisplayNames(qn, qubits)) < Len(qubits)

RECURSIVE WireLinesFrom(_, _, _)
WireLinesFrom(display, qubits, i) ==
    IF i > Len(qubits) THEN << >>
    ELSE << WireDecl(qubits[i], display[i]), NL >>
             \o WireLinesFrom(display, qubits, i + 1)

\* the wire lines in reverse qubit order
WireLinesReversed(qn, qubits) ==
    LET n == Len(qubits)
        rev == [i \in 1..n |-> qubits[n + 1 - i]]
    IN  WireLinesFrom(DisplayNames(qn, qubits), rev, 1)

\* for i, q in enumerate(circuit.qubits): one wire line each
WireLines(qn, qubits) == WireLinesFrom(DisplayNames(qn, qubits), qubits, 1)

\* the two COLOR lines
Header == << ColorDef("tq"), NL, ColorDef("guo"), NL >>

\* the colours with the text colours exchanged
GateColorsSwapped(g, mark) ==
    IF HasParameter(g) /\ ~IsNumber(g.parameter) /\ mark
    THEN [gcol |-> "guo", tcol |-> "white"]
    ELSE [gcol |-> "tq", tcol |-> "black"]

\* gcol, tcol of a gate
GateColors(g, mark) ==
    IF HasParameter(g) /\ ~IsNumber(g.parameter) /\ mark
    THEN [gcol |-> "guo", tcol |-> "black"]
    ELSE [gcol |-> "tq", tcol |-> "white"]

\* the names of line 92
ExpPauliName == << "E", "x", "p", "-", "P", "a", "u", "l", "i" >>
GenRotName == << "G", "e", "n", "R", "o", "t" >>

\* the rendering mode with the generator rule tried before the name rule
RenderModeGeneratorsFirst(g, aug, dcg) ==
    IF aug /\ ~make_generator(g, dcg).none THEN "generators"
    ELSE IF g.name \in {<< "H" >>, << "h" >>} THEN "special"
    ELSE IF Upper(g.name) \in {Upper(ExpPauliName), Upper(GenRotName)} THEN "stored"
    ELSE "generic"

\* the branch of the if / elif / else chain a gate takes
RenderMode(g, aug, dcg) ==
    IF g.name \in {<< "H" >>, << "h" >>} THEN "special"
    ELSE IF aug /\ ~make_generator(g, dcg).none THEN "generators"
    ELSE IF Upper(g.name) \in {Upper(ExpPauliName), Upper(GenRotName)} THEN "stored"
    ELSE "generic"

RECURSIVE SpecialBoxes(_, _, _)
\* the "H" branch: a box per target, each followed by the controls
SpecialBoxes(g, col, targets) ==
    IF targets = << >> THEN << >>
    ELSE << Box(Head(targets), col.gcol, col.tcol, << "H" >>) >>
             \o (IF is_controlled(g) THEN Refs(g.control) ELSE << >>)
             \o SpecialBoxes(g, col, Tail(targets))

RECURSIVE TermBoxes(_, _)
\* for k, v in ps.items(): a box each, the operator upper-cased
TermBoxes(ps, col) ==
    IF ps = << >> THEN << >>
    ELSE << Box(Head(ps).q, col.gcol, col.tcol, Upper(Head(ps).op)) >>
             \o TermBoxes(Tail(ps), col)

RECURSIVE TermLines(_, _, _)
\* for ps in paulistrings: empty terms skipped, one line per other term
TermLines(terms, col, controls) ==
    IF terms = << >> THEN << >>
    ELSE (IF Len(Head(terms)) = 0 THEN << >>
          ELSE TermBoxes(Head(terms), col) \o Refs(controls) \o << NL >>)
             \o TermLines(Tail(terms), col, controls)

\* the grouping line: every qubit of the circuit, then the directive
GroupLine(group, qubits) ==
    IF HasUpper(group)
    THEN Refs(qubits) \o << Directive(Upper(group.s)), NL >>
    ELSE << >>

RECURSIVE TermLinesGrouped(_, _, _, _, _)
TermLinesGrouped(terms, col, controls, group, qubits) ==
    IF terms = << >> THEN << >>
    ELSE (IF Len(Head(terms)) = 0 THEN << >>
          ELSE TermBoxes(Head(terms), col) \o Refs(controls) \o << NL >>
                  \o GroupLine(group, qubits))
             \o TermLinesGrouped(Tail(terms), col, controls, group, qubits)

\* the generator branch with the grouping line inside the term loop
RenderGeneratorsPerTerm(g, col, dcg, group, qubits) ==
    TermLinesGrouped(make_generator(g, dcg).paulistrings, col,
                     IF is_controlled(g) /\ ~dcg THEN g.control ELSE << >>,
                     group, qubits)

\* the always_use_generators branch
RenderGenerators(g, col, dcg, group, qubits) ==
    TermLines(make_generator(g, dcg).paulistrings, col,
              IF is_controlled(g) /\ ~dcg THEN g.control ELSE << >>)
        \o GroupLine(group, qubits)

\* the "Exp-Pauli" / "GenRot" branch: the stored generator; reading the
\* Pauli strings of a gate without a generator raises AttributeError
RenderStored(g, col) ==
    IF g.generator.none THEN << Raise("AttributeError") >>
    ELSE TermLines(g.generator.paulistrings, col,
                   IF is_controlled(g) THEN g.control ELSE << >>)

\* g.axis_to_string[g.axis]
AxisHead(g) == << "R", "_", "{" >> \o g.axis \o << "}" >>

\* the generic branch; a gate with an angle reads g.parameter, which
\* raises AttributeError on a gate without that attribute
RenderGeneric(g) ==
    Refs(g.target)
        \o (IF HasAngle(g) /\ ~HasParameter(g)
            THEN << Raise("AttributeError") >>
            ELSE IF HasAngle(g)
            THEN << GBox(AxisHead(g), assign_name(g.parameter),
                         25 + 5 * Len(assign_name(g.parameter))) >>
            ELSE IF HasParameter(g) /\ g.parameter.kind # "None"
            THEN << GBox(g.name, assign_name(g.parameter),
                         25 + 5 * Len(assign_name(g.parameter))) >>
            ELSE << NameBox(g.name) >>)
        \o (IF is_controlled(g) THEN Refs(g.control) ELSE << >>)

\* what the chosen branch appends for one gate
RenderBranch(g, aug, dcg, group, mark, qubits) ==
    LET col == GateColors(g, mark)
        mode == RenderMode(g, aug, dcg)
    IN  CASE mode = "special" -> SpecialBoxes(g, col, g.target)
          [] mode = "generators" -> RenderGenerators(g, col, dcg, group, qubits)
          [] mode = "stored" -> RenderStored(g, col)
          [] OTHER -> RenderGeneric(g)

\* one pass of the gate loop without the closing newline
RenderGateNoNewline(g, aug, dcg, group, mark, qubits) ==
    RenderBranch(g, aug, dcg, group, mark, qubits)

\* one pass of the gate loop: the branch, then result += "\n"
RenderGate(g, aug, dcg, group, mark, qubits) ==
    RenderBranch(g, aug, dcg, group, mark, qubits) \o << NL >>

-----------------------------------------------------------------------------
(* export_to_qpic: the whole document, and the file it is written to *)

RECURSIVE GateLines(_, _, _, _, _, _, _)
\* the output of the gate loop from gate i on
GateLines(c, i, aug, dcg, group, mark, qubits) ==
    IF i > Len(c.gates) THEN << >>
    ELSE RenderGate(c.gates[i], aug, dcg, group, mark, qubits)
             \o GateLines(c, i + 1, aug, dcg, group, mark, qubits)

\* the document export_to_qpic returns for a circuit
Document(c, aug, dcg, group, qn, mark) ==
    Header \o WireLines(qn, Qubits(c))
           \o GateLines(c, 1, aug, dcg, NormalizeGroup(group), mark, Qubits(c))

\* the tokens file names are made of
Tok == {"a", "qpic", ".", "/"}

\* None, where a file name or a path is expected
None == << "None" >>

\* s.endswith(suffix)
EndsWith(s, suffix) ==
    /\ Len(s) >= Len(suffix)
    /\ SubSeq(s, Len(s) - Len(suffix) + 1, Len(s)) = suffix

\* the name handed to open(): lines 122-126
QpicFileName(name, path) ==
    LET withExt == IF EndsWith(name, << ".", "qpic" >>)
                   THEN name ELSE name \o << ".", "qpic" >>
    IN  IF path # None THEN path \o << "/" >> \o withExt ELSE withExt

\* the working directory of the process, as path components
ProcessCwd == << << "w" >> >>

RECURSIVE Walk(_, _)
\* path resolution: "" and "." stay, ".." goes up, a name goes down
Walk(at, parts) ==
    IF parts = << >> THEN at
    ELSE LET x == Head(parts)
         IN  Walk(IF x = << >> \/ x = << "." >> THEN at
                  ELSE IF x = << ".", "." >>
                       THEN (IF at = << >> THEN at ELSE ButLast(at))
                       ELSE Append(at, x),
                  Tail(parts))

\* the file or directory a path names, seen from directory `base`
Resolve(base, path) ==
    Walk(IF path # << >> /\ Head(path) = "/" THEN << >> ELSE base,
         Split(path, "/"))

\* open(name, "w") succeeds: every directory on the way exists and the
\* name is that of a file; otherwise it raises an OSError
Openable(exist, name) ==
    LET parts == Split(name, "/")
        base == IF name # << >> /\ Head(name) = "/" THEN << >> ELSE ProcessCwd
    IN  /\ \A k \in 0..(Len(parts) - 1) : Walk(base, SubSeq(parts, 1, k)) \in exist
        /\ Last(parts) \notin {<< >>, << "." >>, << ".", "." >>}
        /\ Resolve(ProcessCwd, name) \notin exist

\* with open(name, "w") as file: file.write(content) -- the files
\* afterwards, and whether open() raised
WriteFile(files, exist, name, content) ==
    LET at == Resolve(ProcessCwd, name)
    IN  IF Openable(exist, name)
        THEN [raised |-> FALSE,
              files |-> { f \in files : f.path # at }
                            \cup { [path |-> at, content |-> content] }]
        ELSE [raised |-> TRUE, files |-> files]

-----------------------------------------------------------------------------
(* export_to: file name handling and the compilation pass *)

\* lines 160-163: which guard raises, if any
Guard(has_qpic, name) ==
    IF ~has_qpic THEN "no_qpic"
    ELSE IF ~Contains(name, ".") THEN "no_filetype"
    ELSE "ok"

\* lines 165-179: ftype, fname, fpath of a file name
SplitFileName(name) ==
    LET filename_tmp == Split(name, ".")
        ft == IF Len(filename_tmp) = 1 THEN << ".", "pdf" >> ELSE Last(filename_tmp)
        fn == IF Len(filename_tmp) = 1 THEN name ELSE Concat(ButLast(filename_tmp))
        tmp == Split(fn, "/")
        dirs == Concat([i \in 1..(Len(tmp) - 1) |-> tmp[i] \o << "/" >>])
    IN  [ftype |-> ft,
         fname |-> Last(tmp),
         fpath |-> IF Len(tmp) > 1
                   THEN (IF name[1] = "/" THEN << "/" >> \o dirs ELSE dirs)
                   ELSE None]

\* the qubits of a Pauli string, in order
TermQubits(ps) == [i \in 1..Len(ps) |-> ps[i].q]

RECURSIVE ExpandTerms(_, _)
ExpandTerms(g, terms) ==
    IF terms = << >> THEN << >>
    ELSE << Gate(ExpPauliName, TermQubits(Head(terms)), g.control, g.parameter,
                 << >>, Generator(<< Head(terms) >>)) >>
             \o ExpandTerms(g, Tail(terms))

\* the name of a trotterized gate
TrotterizedName == << "T", "r", "o", "t", "t", "e", "r", "i", "z", "e", "d" >>

RECURSIVE CompileGates(_)
CompileGates(gates) ==
    IF gates = << >> THEN << >>
    ELSE (IF Head(gates).name = TrotterizedName
          THEN ExpandTerms(Head(gates), Head(gates).generator.paulistrings)
          ELSE << Head(gates) >>)
             \o CompileGates(Tail(gates))

\* Compiler(trotterized=True)(circuit): a trotterized gate becomes one
\* Pauli exponential per term of its generator
Compile(c) == Circuit(CompileGates(c.gates))

\* subprocess.call(["qpic", doc, "-f", format], cwd=cwd)
RendererCall(doc, format, cwd) == [doc |-> doc, format |-> format, cwd |-> cwd]

-----------------------------------------------------------------------------
(* Inputs *)

\* offsets from pi/i: steps of 5e-6 up to 1.5e-4 either way, and the
\* offsets next to atol and next to atol + rtol * pi/j
Offsets ==
    { 500 * k : k \in -30..30 }
        \cup { sgn * (Atol + e) : sgn \in {-1, 1}, e \in -3..3 }
        \cup { sgn * (Atol + (PiOverUnits(j) \div RtolInv) + e) :
                   sgn \in {-1, 1}, j \in 1..4, e \in -3..3 }

FixedValues ==
    { sgn * (PiOver(i) + d) : sgn \in {-1, 1}, i \in 1..4, d \in Offsets }
        \cup { 0, 12345600, -12345600, -400, 2 * Pi, 1234567800 }
        \cup { sgn * (5000 + 10000 * k) : sgn \in {-1, 1}, k \in 0..40 }
        \cup { 3125000, -9375000, 1999995000 }

LabelInputs ==
    { Fixed(v) : v \in FixedValues }
        \cup { Param("tuple", 0, << >>, << >>, << >>),
               Symbolic(<< << "a" >> >>),
               Symbolic(<< << "a" >>, << "b" >> >>),
               Symbolic(<< << "[", "x" >>, << "y", "]" >> >>),
               Symbolic(<< >>),
               NoneParameter,
               Number(<< "1", ".", "5" >>),
               Param("other", 0, << >>, << "o", "b", "j" >>, << "s" >>),
               Param("norepr", 0, << >>, << >>, << "s" >>) }

\* the generator of a Hadamard-like gate on q: identity, X and Z terms
HGenerator(q) ==
    Generator(<< << >>, << Item(q, << "X" >>) >>, << Item(q, << "Z" >>) >> >>)

\* the gates circuits are built from
Catalogue ==
    { Gate(<< "H" >>, << 0 >>, << >>, NoParameter, << >>, HGenerator(0)),
      Gate(<< "H" >>, << 1 >>, << 0 >>, Symbolic(<< << "a" >> >>), << >>,
           HGenerator(1)),
      Gate(<< "h" >>, << 0, 1 >>, << 2 >>, NoneParameter, << >>, NoGenerator),
      Gate(<< "X" >>, << 0 >>, << >>, NoParameter, << >>,
           Generator(<< << >>, << Item(0, << "x" >>) >> >>)),
      Gate(<< "X" >>, << 1 >>, << 0 >>, NoParameter, << >>,
           Generator(<< << >>, << Item(1, << "X" >>) >> >>)),
      Gate(<< "R", "x" >>, << 0 >>, << >>, Fixed(PiOver(2)), << "x" >>,
           Generator(<< << Item(0, << "X" >>) >> >>)),
      Gate(<< "R", "y" >>, << 1 >>, << 0 >>,
           Symbolic(<< << "a" >>, << "b" >> >>), << "y" >>,
           Generator(<< << Item(1, << "Y" >>) >> >>)),
      Gate(<< "R", "z" >>, << 2 >>, << >>, Number(<< "1", ".", "5" >>), << "z" >>,
           Generator(<< << Item(2, << "Z" >>) >> >>)),
      Gate(ExpPauliName, << 0, 1 >>, << >>, Symbolic(<< << "a" >> >>), << >>,
           Generator(<< << Item(0, << "X" >>), Item(1, << "y" >>) >> >>)),
      Gate(<< "G", "e", "n", "r", "o", "t" >>, << 0, 1 >>, << 2 >>,
           Fixed(12345600), << >>,
           Generator(<< << Item(0, << "X" >>) >>, << >>,
                        << Item(1, << "Z" >>) >> >>)),
      Gate(<< "e", "x", "p", "-", "P", "a", "u", "l", "i" >>, << 1 >>, << >>,
           NoParameter, << >>, NoGenerator),
      Gate(<< "G", "l", "o", "b", "a", "l", "P", "h", "a", "s", "e" >>,
           << 0 >>, << >>, Fixed(-PiOver(3)), << >>, Generator(<< << >> >>)),
      Gate(<< "U" >>, << 2 >>, << >>, NoParameter, << >>, NoGenerator),
      Gate(<< "R", "x" >>, << 0 >>, << >>, NoParameter, << "x" >>, NoGenerator),
      Gate(<< "P", "h", "a", "s", "e" >>, << 1 >>, << >>,
           Symbolic(<< << "b" >> >>), << >>, NoGenerator) }

Circuits == { Circuit(gs) : gs \in SeqsUpTo(Catalogue, MaxGates) }

GroupInputs ==
    { GroupBool(FALSE), GroupBool(TRUE),
      GroupStr(<< "B", "a", "r", "r", "i", "e", "r" >>) }

NameInputs ==
    { NamesNone, NamesStr(<< "q" >>),
      NamesList(<< << "p" >>, << "q" >>, << "r" >>, << "s" >> >>),
      NamesList(<< << "p" >> >>) }

\* the circuits export_to is called with
ExportCircuits ==
    { Circuit(<< Gate(<< "R", "x" >>, << 0 >>, << >>, Fixed(PiOver(2)), << "x" >>,
                      Generator(<< << Item(0, << "X" >>) >> >>)),
                 Gate(TrotterizedName, << 0, 1 >>, << >>,
                      Symbolic(<< << "a" >> >>), << >>,
                      Generator(<< << Item(0, << "X" >>) >>,
                                   << Item(1, << "Z" >>) >> >>)) >>),
      Circuit(<< Gate(<< "H" >>, << 1 >>, << 0 >>, NoParameter, << >>,
                      HGenerator(1)) >>) }

FileNames == SeqsUpTo(Tok, MaxLen)

\* the directories that exist: the root and the working directory, alone
\* or with a directory "a" in each of them
DirInputs ==
    { { << >>, ProcessCwd },
      { << >>, ProcessCwd, Append(ProcessCwd, << "a" >>), << << "a" >> >> } }

-----------------------------------------------------------------------------
(* Initial states: one call of one of the three functions *)

DefaultOptions ==
    /\ always_use_generators = TRUE
    /\ decompose_control_generators = FALSE
    /\ group_together = GroupBool(FALSE)
    /\ qubit_names = NamesNone
    /\ mark_parametrized_gates = TRUE

InitLabel ==
    /\ caller = "assign_name" /\ pc = "assign_name"
    /\ parameter \in LabelInputs /\ label = << >>
    /\ circuit = Circuit(<< >>) /\ filename = << >>
    /\ system_has_qpic = TRUE
    /\ ftype = None /\ fname = None /\ fpath = None
    /\ compiled = Circuit(<< >>)
    /\ qcircuit = Circuit(<< >>) /\ qfilename = None /\ qfilepath = None
    /\ result = << >> /\ gi = 0 /\ starts = << >>
    /\ folders = { << >>, ProcessCwd } /\ fs = {} /\ calls = << >> /\ log = << >>
    /\ DefaultOptions

\* export_to_qpic called directly: every circuit and option without a file
\* name, and a few circuits with the default options and a file name
InitDoc ==
    /\ caller = "export_to_qpic" /\ pc = "qpic_header"
    /\ parameter = NoParameter /\ label = << >>
    /\ circuit = Circuit(<< >>) /\ filename = << >>
    /\ system_has_qpic = TRUE
    /\ ftype = None /\ fname = None /\ fpath = None
    /\ compiled = Circuit(<< >>)
    /\ result = << >> /\ gi = 0 /\ starts = << >>
    /\ fs = {} /\ calls = << >> /\ log = << >>
    /\ \/ /\ qcircuit \in Circuits /\ qfilename = None /\ qfilepath = None
          /\ folders = { << >>, ProcessCwd }
          /\ always_use_generators \in BOOLEAN
          /\ decompose_control_generators \in BOOLEAN
          /\ group_together \in GroupInputs
          /\ qubit_names \in NameInputs
          /\ mark_parametrized_gates \in BOOLEAN
       \/ /\ qcircuit \in { Compile(c) : c \in ExportCircuits }
          /\ qfilename \in { << "a" >>, << "a", ".", "qpic" >> }
          /\ qfilepath \in { None, << "a" >> }
          /\ folders \in DirInputs
          /\ DefaultOptions

\* export_to called with its default options, or with group_together=True
InitExport ==
    /\ caller = "export_to" /\ pc = "export_to"
    /\ parameter = NoParameter /\ label = << >>
    /\ circuit \in ExportCircuits /\ filename \in FileNames
    /\ system_has_qpic \in BOOLEAN
    /\ ftype = None /\ fname = None /\ fpath = None
    /\ compiled = Circuit(<< >>)
    /\ qcircuit = Circuit(<< >>) /\ qfilename = None /\ qfilepath = None
    /\ result = << >> /\ gi = 0 /\ starts = << >>
    /\ folders \in DirInputs /\ fs = {} /\ calls = << >> /\ log = << >>
    /\ always_use_generators = TRUE
    /\ decompose_control_generators = FALSE
    /\ group_together \in { GroupBool(FALSE), GroupBool(TRUE) }
    /\ qubit_names = NamesNone
    /\ mark_parametrized_gates = TRUE

-----------------------------------------------------------------------------
(* Actions *)

options == << always_use_generators, decompose_control_generators,
              group_together, qubit_names, mark_parametrized_gates >>
exportArgs == << circuit, filename, system_has_qpic >>
exportLocals == << ftype, fname, fpath, compiled >>
qpicArgs == << qcircuit, qfilename, qfilepath >>

\* assign_name(parameter)
AssignName ==
    /\ pc = "assign_name"
    /\ label' = assign_name(parameter)
    /\ pc' = "returned"
    /\ UNCHANGED << caller, parameter, options, exportArgs, exportLocals,
                    qpicArgs, result, gi, starts, folders, fs, calls, log >>

\* export_to_qpic, lines 44-61: the COLOR lines and the wire lines; the
\* wire loop raises IndexError on a list of names shorter than the qubits
QpicHeader ==
    /\ pc = "qpic_header"
    /\ IF WireIndexError(qubit_names, Qubits(qcircuit))
       THEN /\ pc' = "IndexError"
            /\ UNCHANGED << result, gi, starts >>
       ELSE /\ result' = Header \o WireLines(qubit_names, Qubits(qcircuit))
            /\ gi' = 1
            /\ starts' = << >>
            /\ pc' = "qpic_gates"
    /\ UNCHANGED << caller, parameter, label, options, exportArgs,
                    exportLocals, qpicArgs, folders, fs, calls, log >>

\* export_to_qpic, lines 63-119: one pass of the gate loop; line 94 raises
\* AttributeError on an "Exp-Pauli" / "GenRot" gate without a generator,
\* line 106 on a gate with an angle and without a parameter
QpicGate ==
    /\ pc = "qpic_gates"
    /\ gi <= Len(qcircuit.gates)
    /\ LET text == RenderGate(qcircuit.gates[gi], always_use_generators,
                              decompose_control_generators,
                              NormalizeGroup(group_together),
                              mark_parametrized_gates, Qubits(qcircuit))
       IN  IF Raised(text)
           THEN /\ pc' = "AttributeError"
                /\ UNCHANGED << result, gi, starts >>
           ELSE /\ result' = result \o text
                /\ gi' = gi + 1
                /\ starts' = Append(starts, Len(result))
                /\ pc' = pc
    /\ UNCHANGED << caller, parameter, label, options, exportArgs,
                    exportLocals, qpicArgs, folders, fs, calls, log >>

\* export_to_qpic, lines 121-129: write the file if one is named, return;
\* open() raises an OSError when the file cannot be created
QpicFinish ==
    /\ pc = "qpic_gates"
    /\ gi > Len(qcircuit.gates)
    /\ IF qfilename = None
       THEN /\ pc' = IF caller = "export_to" THEN "render" ELSE "returned"
            /\ UNCHANGED << fs, log >>
       ELSE LET written == WriteFile(fs, folders,
                                     QpicFileName(qfilename, qfilepath), result)
            IN  IF written.raised
                THEN /\ pc' = "OSError"
                     /\ UNCHANGED << fs, log >>
                ELSE /\ fs' = written.files
                     /\ log' = Append(log, "write")
                     /\ pc' = IF caller = "export_to" THEN "render"
                              ELSE "returned"
    /\ UNCHANGED << caller, parameter, label, options, exportArgs,
                    exportLocals, qpicArgs, result, gi, starts, folders, calls >>

\* export_to, lines 160-163: the two guards
ExportToGuard ==
    /\ pc = "export_to"
    /\ pc' = IF Guard(system_has_qpic, filename) = "ok"
             THEN "split" ELSE Guard(system_has_qpic, filename)
    /\ log' = Append(log, "guard")
    /\ UNCHANGED << caller, parameter, label, options, exportArgs,
                    exportLocals, qpicArgs, result, gi, starts, folders, fs, calls >>

\* export_to, lines 165-179: ftype, fname and fpath
ExportToSplit ==
    /\ pc = "split"
    /\ ftype' = SplitFileName(filename).ftype
    /\ fname' = SplitFileName(filename).fname
    /\ fpath' = SplitFileName(filename).fpath
    /\ pc' = "compile"
    /\ log' = Append(log, "split")
    /\ UNCHANGED << caller, parameter, label, options, exportArgs, compiled,
                    qpicArgs, result, gi, starts, folders, fs, calls >>

\* export_to, line 181: the trotterization pass
ExportToCompile ==
    /\ pc = "compile"
    /\ compiled' = Compile(circuit)
    /\ pc' = "call_qpic"
    /\ log' = Append(log, "compile")
    /\ UNCHANGED << caller, parameter, label, options, exportArgs, ftype,
                    fname, fpath, qpicArgs, result, gi, starts, folders, fs, calls >>

\* the call of export_to_qpic with the circuit as it was given
ExportToCallQpicUncompiled ==
    /\ pc = "call_qpic"
    /\ qcircuit' = circuit
    /\ qfilename' = fname
    /\ qfilepath' = fpath
    /\ result' = << >>
    /\ gi' = 0
    /\ starts' = << >>
    /\ pc' = "qpic_header"
    /\ UNCHANGED << caller, parameter, label, options, exportArgs,
                    exportLocals, folders, fs, calls, log >>

\* export_to, lines 183-189: the call of export_to_qpic
ExportToCallQpic ==
    /\ pc = "call_qpic"
    /\ qcircuit' = compiled
    /\ qfilename' = fname
    /\ qfilepath' = fpath
    /\ result' = << >>
    /\ gi' = 0
    /\ starts' = << >>
    /\ pc' = "qpic_header"
    /\ UNCHANGED << caller, parameter, label, options, exportArgs,
                    exportLocals, folders, fs, calls, log >>

\* the renderer started whatever the file type
ExportToRenderAlways ==
    /\ pc = "render"
    /\ calls' = Append(calls, RendererCall(fname \o << ".", "qpic" >>, ftype, fpath))
    /\ log' = Append(log, "render")
    /\ pc' = "returned"
    /\ UNCHANGED << caller, parameter, label, options, exportArgs,
                    exportLocals, qpicArgs, result, gi, starts, folders, fs >>

\* export_to, lines 190-191: the renderer, unless the file type is qpic
ExportToRender ==
    /\ pc = "render"
    /\ IF ftype # << "qpic" >>
       THEN /\ calls' = Append(calls, RendererCall(fname \o << ".", "qpic" >>,
                                                   ftype, fpath))
            /\ log' = Append(log, "render")
       ELSE UNCHANGED << calls, log >>
    /\ pc' = "returned"
    /\ UNCHANGED << caller, parameter, label, options, exportArgs,
                    exportLocals, qpicArgs, result, gi, starts, folders, fs >>

NextLabel == AssignName

NextDoc == QpicHeader \/ QpicGate \/ QpicFinish

NextExport ==
    \/ ExportToGuard
    \/ ExportToSplit
    \/ ExportToCompile
    \/ ExportToCallQpic
    \/ QpicHeader
    \/ QpicGate
    \/ QpicFinish
    \/ ExportToRender

\* assign_name called on one parameter
SpecLabel == InitLabel /\ [][NextLabel]_vars
\* export_to_qpic called on one circuit
SpecDoc == InitDoc /\ [][NextDoc]_vars
\* export_to called on one circuit and one file name
SpecExport == InitExport /\ [][NextExport]_vars

-----------------------------------------------------------------------------
(* Reading a document back: lines, and the part each gate appended *)

\* the newline-terminated lines of a text, each without its newline
CompleteLines(text) == ButLast(Split(text, NL))

\* what follows the last newline of a text
Unterminated(text) == Last(Split(text, NL))

\* the gates whose output is in `result`
Rendered == 1..Len(starts)

\* the pieces gate i appended to `result`
Segment(i) ==
    SubSeq(result, starts[i] + 1,
           IF i < Len(starts) THEN starts[i + 1] ELSE Len(result))

\* the pieces of one kind in a text
OfKind(text, k) == SelectSeq(text, LAMBDA p : p.k = k)

\* the (qubit, operator) pairs of the boxes of a text, in order
BoxItems(text) ==
    LET boxes == OfKind(text, "box")
    IN  [j \in 1..Len(boxes) |-> Item(boxes[j].q, boxes[j].c)]

\* the items of a sequence of Pauli strings, operators upper-cased
UpperItems(terms) ==
    LET items == Concat(terms)
    IN  [j \in 1..Len(items) |-> Item(items[j].q, Upper(items[j].op))]

\* the non-empty Pauli strings of a generator
NonEmptyTerms(terms) == SelectSeq(terms, LAMBDA ps : Len(ps) > 0)

\* the rule of the spec's order that matches a gate first
FirstRule(g) ==
    CASE g.name = << "H" >> \/ g.name = << "h" >> -> "special"
      [] OTHER ->
         IF always_use_generators
            /\ ~make_generator(g, decompose_control_generators).none
         THEN "generators"
         ELSE IF Upper(g.name) = << "E", "X", "P", "-", "P", "A", "U", "L", "I" >>
                 \/ Upper(g.name) = << "G", "E", "N", "R", "O", "T" >>
              THEN "stored"
              ELSE "generic"

\* the document is complete and was returned by a direct call
DocReturned == caller = "export_to_qpic" /\ pc = "returned"

-----------------------------------------------------------------------------
(* Claims about export_to_qpic, checked under SpecDoc *)

\* C4: the returned document has exactly N wire-declaration lines, one
\* per qubit in circuit qubit order, directly after the two COLOR lines;
\* the display name of the i-th is the i-th qubit identifier by default,
\* the i-th entry of a supplied list, or the single supplied string.
C4_WireLines ==
    DocReturned =>
        LET qubits == Qubits(qcircuit)
            n == Len(qubits)
            lines == CompleteLines(result)
        IN  /\ Len(lines) >= n + 2
            /\ lines[1] = << ColorDef("tq") >>
            /\ lines[2] = << ColorDef("guo") >>
            /\ \A i \in 1..n :
                  lines[2 + i] =
                      << WireDecl(qubits[i],
                                  CASE qubit_names.kind = "None" -> Digits(qubits[i])
                                    [] qubit_names.kind = "str" -> qubit_names.s
                                    [] OTHER -> qubit_names.l[i]) >>
            /\ Len(OfKind(result, "wire")) = n

C4_Witness ==
    /\ DocReturned
    /\ Len(Qubits(qcircuit)) = 3
    /\ Len(qcircuit.gates) = 2
    /\ qubit_names.kind = "list"

\* C5: each gate is rendered by the first matching rule in the order
\* special-case name, generator enabled and available, Exp-Pauli / GenRot
\* name, generic; a gate named "H" or "h" always gets the special-case box.
C5_FirstMatchingRule ==
    \A i \in Rendered :
        LET g == qcircuit.gates[i]
            seg == Segment(i)
            rule == FirstRule(g)
            labels == Len(OfKind(seg, "G")) + Len(OfKind(seg, "name"))
            directives == Len(OfKind(seg, "dir"))
        IN  /\ rule = "special" =>
                /\ BoxItems(seg) = [j \in 1..Len(g.target) |-> Item(g.target[j], << "H" >>)]
                /\ labels = 0 /\ directives = 0
            /\ rule = "generators" =>
                /\ BoxItems(seg) =
                       UpperItems(make_generator(g, decompose_control_generators).paulistrings)
                /\ labels = 0
                /\ directives = IF group_together = GroupBool(FALSE) THEN 0 ELSE 1
            /\ rule = "stored" =>
                /\ BoxItems(seg) = UpperItems(g.generator.paulistrings)
                /\ labels = 0 /\ directives = 0
                /\ Len(OfKind(seg, "ref")) =
                       Len(NonEmptyTerms(g.generator.paulistrings)) * Len(g.control)
            /\ rule = "generic" =>
                /\ BoxItems(seg) = << >>
                /\ labels = 1 /\ directives = 0

C5_Witness ==
    /\ DocReturned
    /\ always_use_generators /\ decompose_control_generators
    /\ group_together = GroupBool(TRUE)
    /\ Len(qcircuit.gates) = 2
    /\ qcircuit.gates[1].name = << "H" >>
    /\ ~qcircuit.gates[1].generator.none
    /\ FirstRule(qcircuit.gates[2]) = "generators"

\* C7 as stated: a box is highlight colour (guo) with white text if the
\* gate has a non-numeric parameter and mark_parametrized_gates is on,
\* and primary colour (tq) with black text otherwise.
C7_Original ==
    \A i \in Rendered :
        LET g == qcircuit.gates[i]
            boxes == OfKind(Segment(i), "box")
        IN  \A j \in 1..Len(boxes) :
                IF HasParameter(g) /\ g.parameter.kind \notin {"fixed", "number"}
                   /\ mark_parametrized_gates
                THEN boxes[j].a = "guo" /\ boxes[j].b = "white"
                ELSE boxes[j].a = "tq" /\ boxes[j].b = "black"

\* C7, amended: a box is highlight colour (guo) with black text if the
\* gate has a parameter that is not a number (neither a fixed variable nor
\* a plain number) and mark_parametrized_gates is on, and primary colour
\* (tq) with white text otherwise.
C7_BoxColours ==
    \A i \in Rendered :
        LET g == qcircuit.gates[i]
            boxes == OfKind(Segment(i), "box")
        IN  \A j \in 1..Len(boxes) :
                IF HasParameter(g) /\ g.parameter.kind \notin {"fixed", "number"}
                   /\ mark_parametrized_gates
                THEN boxes[j].a = "guo" /\ boxes[j].b = "black"
                ELSE boxes[j].a = "tq" /\ boxes[j].b = "white"

C7_Witness ==
    /\ DocReturned
    /\ mark_parametrized_gates
    /\ Len(qcircuit.gates) = 2
    /\ qcircuit.gates[1].parameter.kind = "symbolic"
    /\ qcircuit.gates[2].parameter.kind = "number"
    /\ OfKind(Segment(1), "box") # << >>
    /\ OfKind(Segment(2), "box") # << >>

\* the grouping line for directive d: every circuit qubit, then d
GroupingLine(d) == Refs(Qubits(qcircuit)) \o << Directive(d) >>

\* C1 as stated: with group_together=True, in a gate rendered from its
\* generator every non-empty term's line is directly followed by one
\* grouping line (all qubits, TOUCH), and there are no other grouping
\* lines: as many grouping lines as non-empty terms.
C1_Original ==
    group_together = GroupBool(TRUE) =>
        \A i \in Rendered :
            LET g == qcircuit.gates[i]
                lines == CompleteLines(Segment(i))
                terms == NonEmptyTerms(
                             make_generator(g, decompose_control_generators).paulistrings)
            IN  FirstRule(g) = "generators" =>
                    /\ Len(OfKind(Segment(i), "dir")) = Len(terms)
                    /\ Len(lines) >= 2 * Len(terms)
                    /\ \A k \in 1..Len(terms) :
                          /\ BoxItems(lines[2 * k - 1]) = UpperItems(<< terms[k] >>)
                          /\ lines[2 * k] = GroupingLine(<< "T", "O", "U", "C", "H" >>)

\* C1, amended: with group_together=True, a gate rendered through the
\* always_use_generators branch gets one line per non-empty term of its
\* generator and then exactly one grouping line (all circuit qubits,
\* TOUCH) after the last term line, whatever the number of non-empty
\* terms (also none); empty terms produce no line; gates rendered by the
\* other branches get no grouping line.
C1_OneGroupingLinePerGate ==
    group_together = GroupBool(TRUE) =>
        \A i \in Rendered :
            LET g == qcircuit.gates[i]
                lines == CompleteLines(Segment(i))
                terms == NonEmptyTerms(
                             make_generator(g, decompose_control_generators).paulistrings)
                n == Len(terms)
            IN  IF FirstRule(g) = "generators"
                THEN /\ Len(lines) = n + 2
                     /\ \A k \in 1..n :
                           /\ BoxItems(lines[k]) = UpperItems(<< terms[k] >>)
                           /\ OfKind(lines[k], "dir") = << >>
                     /\ lines[n + 1] = GroupingLine(<< "T", "O", "U", "C", "H" >>)
                     /\ Len(OfKind(Segment(i), "dir")) = 1
                ELSE OfKind(Segment(i), "dir") = << >>

C1_Witness ==
    /\ DocReturned
    /\ group_together = GroupBool(TRUE)
    /\ always_use_generators
    /\ Len(qcircuit.gates) = 2
    /\ Len(NonEmptyTerms(qcircuit.gates[1].generator.paulistrings)) = 2
    /\ Len(qcircuit.gates[1].generator.paulistrings) = 3
    /\ qcircuit.gates[1].name # << "H" >>
    /\ FirstRule(qcircuit.gates[2]) = "generators"
    /\ NonEmptyTerms(qcircuit.gates[2].generator.paulistrings) = << >>

\* C8 as stated: in every rendering mode the gate's rendering lines are
\* each terminated by a newline and followed by one blank separator line.
C8_Original ==
    \A i \in Rendered :
        LET lines == CompleteLines(Segment(i))
        IN  /\ Unterminated(Segment(i)) = << >>
            /\ Len(lines) >= 1
            /\ lines[Len(lines)] = << >>
            /\ \A k \in 1..(Len(lines) - 1) : lines[k] # << >>

\* C8, amended: every gate's output ends with a newline and each of its
\* lines is newline-terminated; in the two generator-based modes the
\* term lines (and the grouping line) are followed by one blank line; in
\* the special-case H mode and the generic mode the output is the single
\* rendering line, with no blank line after it.
C8_GateLines ==
    \A i \in Rendered :
        LET g == qcircuit.gates[i]
            lines == CompleteLines(Segment(i))
        IN  /\ Unterminated(Segment(i)) = << >>
            /\ Len(lines) >= 1
            /\ IF FirstRule(g) \in {"generators", "stored"}
               THEN /\ lines[Len(lines)] = << >>
                    /\ \A k \in 1..(Len(lines) - 1) : lines[k] # << >>
               ELSE /\ Len(lines) = 1
                    /\ lines[1] # << >>

C8_Witness ==
    /\ DocReturned
    /\ Len(qcircuit.gates) = 2
    /\ FirstRule(qcircuit.gates[1]) = "special"
    /\ FirstRule(qcircuit.gates[2]) = "generators"
    /\ Len(CompleteLines(Segment(1))) = 1
    /\ Len(CompleteLines(Segment(2))) = 3

-----------------------------------------------------------------------------
(* Claims about assign_name, checked under SpecLabel *)

\* assign_name has returned the label of a fixed numeric parameter
LabelReturned ==
    caller = "assign_name" /\ pc = "returned" /\ parameter.kind = "fixed"

\* the label "+\pi/i" or "-\pi/i" of v
FractionLabel(v, i) ==
    << IF v >= 0 THEN "+" ELSE "-", "\\", "p", "i", "/", ToString(i) >>

\* the smallest member of a non-empty set of numbers
Least(S) == CHOOSE x \in S : \A y \in S : x <= y

\* | a - pi/i | in units of 1e-11, capped at 1e-3
Distance(a, i) ==
    IF Abs(a - PiOverUnits(i)) > 100000 THEN 100000000
    ELSE Abs((a - PiOverUnits(i)) * 1000 - PiOverMilli(i))

\* C6 as stated: the label is the signed fraction for the smallest i in
\* 1..4 with |v| within 1e-4 (absolute) of pi/i, and the signed decimal
\* with 4 fractional digits exactly when there is no such i.
C6_Original ==
    LabelReturned =>
        LET v == parameter.val
            within == { i \in 1..4 : Distance(Abs(v), i) <= 10000000 }
        IN  IF within # {}
            THEN label = FractionLabel(v, Least(within))
            ELSE label = FormatFixed(v)

\* C6, amended: the label is the signed fraction for the smallest i in
\* 1..4 with | |v| - pi/i | <= 1e-4 + 1e-5 * pi/i (numpy.isclose adds its
\* default relative tolerance to atol), and the signed decimal with 4
\* fractional digits exactly when there is no such i; pi/2 -> +pi/2,
\* -pi/3 -> -pi/3, 0.123456 -> +0.1235.
C6_Label ==
    LabelReturned =>
        LET v == parameter.val
            within == { i \in 1..4 :
                          Distance(Abs(v), i)
                              <= 10000000 + (PiOverUnits(i) \div 100) }
        IN  /\ IF within # {}
               THEN label = FractionLabel(v, Least(within))
               ELSE /\ label = FormatFixed(v)
                    /\ Len(label) >= 7
                    /\ label[1] = (IF v < 0 THEN "-" ELSE "+")
                    /\ label[Len(label) - 4] = "."
            /\ v = PiOver(2) => label = << "+", "\\", "p", "i", "/", "2" >>
            /\ v = -PiOver(3) => label = << "-", "\\", "p", "i", "/", "3" >>
            /\ v = 12345600 => label = << "+", "0", ".", "1", "2", "3", "5" >>

C6_Witness ==
    /\ LabelReturned
    /\ parameter.val - Pi > Atol
    /\ parameter.val - Pi <= Atol + (Pi \div RtolInv)
    /\ label = << "+", "\\", "p", "i", "/", "1" >>

-----------------------------------------------------------------------------
(* Claims about export_to, checked under SpecExport *)

\* the last position of token t in s, 0 if there is none
LastIndex(s, t) ==
    LET at == { i \in 1..Len(s) : s[i] = t }
    IN  IF at = {} THEN 0 ELSE CHOOSE i \in at : \A j \in at : j <= i

\* the requested extension: what follows the last dot of the file name
Extension(name) == SubSeq(name, LastIndex(name, ".") + 1, Len(name))

\* the file <directory>/<base name>.qpic for a requested file name: the
\* directory is what precedes the last slash, the base name is the last
\* component without its final extension
IntendedDocument(name) ==
    LET slash == LastIndex(name, "/")
        dir == SubSeq(name, 1, slash)
        file == SubSeq(name, slash + 1, Len(name))
        base == SubSeq(file, 1, LastIndex(file, ".") - 1)
    IN  Resolve(ProcessCwd, dir \o base \o << ".", "qpic" >>)

\* s is an initial part of t
IsPrefix(s, t) == Len(s) <= Len(t) /\ s = SubSeq(t, 1, Len(s))

\* export_to has ended, by returning or by raising
Ended == pc \in {"returned", "no_qpic", "no_filetype", "IndexError",
                 "AttributeError", "OSError"}

\* C2 as stated: every call of export_to that passes both guards starts
\* the renderer zero times if the extension is "qpic", and otherwise
\* exactly once, with the requested extension as the format after -f.
C2_Original ==
    (caller = "export_to" /\ Ended
        /\ system_has_qpic /\ Contains(filename, ".")) =>
        IF Extension(filename) = << "qpic" >>
        THEN calls = << >>
        ELSE Len(calls) = 1 /\ calls[1].format = Extension(filename)

\* C2, amended: a call of export_to that passes both guards never starts
\* the renderer if the extension is "qpic"; for any other extension it
\* starts it at most once, and exactly once, with the requested extension
\* as the format after -f, when the call returns; a call in which
\* building or writing the document raises (the directory of the document
\* does not exist) starts no renderer.
C2_RendererCalls ==
    caller = "export_to" =>
        /\ Len(calls) <= 1
        /\ Extension(filename) = << "qpic" >> => calls = << >>
        /\ (pc = "returned" /\ Extension(filename) # << "qpic" >>) =>
              /\ Len(calls) = 1
              /\ calls[1].format = Extension(filename)
        /\ pc \in {"IndexError", "AttributeError", "OSError"} =>
              calls = << >> /\ fs = {}

C2_Witness ==
    /\ caller = "export_to" /\ pc = "returned"
    /\ Len(calls) = 1
    /\ calls[1].format = << "a" >>
    /\ Contains(filename, "/")
    /\ Cardinality(folders) > 2

\* a file name without an extension: its last component is a name
\* without a dot
NoExtension(name) ==
    LET file == SubSeq(name, LastIndex(name, "/") + 1, Len(name))
    IN  file # << >> /\ ~Contains(file, ".")

\* C3: whenever the renderer is not available or the file name has no
\* extension, export_to raises before any work: no compilation pass, no
\* document, no file written, no renderer started.
C3_GuardsBeforeWork ==
    (caller = "export_to" /\ pc # "export_to"
        /\ (~system_has_qpic \/ NoExtension(filename))) =>
        /\ pc = IF ~system_has_qpic THEN "no_qpic" ELSE "no_filetype"
        /\ log = << "guard" >>
        /\ fs = {} /\ calls = << >>
        /\ compiled = Circuit(<< >>) /\ qcircuit = Circuit(<< >>)
        /\ result = << >>

\* a file name whose last component is <base name>.<extension>, both
\* non-empty, the base name neither starting nor ending with a dot
HasExtension(name) ==
    LET file == SubSeq(name, LastIndex(name, "/") + 1, Len(name))
        dot == LastIndex(file, ".")
    IN  /\ dot > 1 /\ dot < Len(file)
        /\ file[1] # "." /\ file[dot - 1] # "."

\* C9: for a file name with an extension the document is written to
\* <directory>/<base name>.qpic, the directory being that of the
\* requested file name (relative paths staying relative) and the base
\* name the file name without its final extension, dots in the base name
\* or the directory preserved.
C9_DocumentLocation ==
    (caller = "export_to" /\ fs # {} /\ HasExtension(filename)) =>
        \A f \in fs : f.path = IntendedDocument(filename)

\* C10: a run of export_to goes guard checks, file name split, compile,
\* document written, renderer, in this order; the document written is
\* that of the compiled circuit; and when the renderer is started the
\* document path it is given, resolved against its working directory, is
\* the one file written, complete.
C10_Pipeline ==
    caller = "export_to" =>
        LET doc == Document(Compile(circuit), always_use_generators,
                            decompose_control_generators, group_together,
                            qubit_names, mark_parametrized_gates)
        IN  /\ IsPrefix(log, << "guard", "split", "compile", "write", "render" >>)
            /\ fs # {} =>
                  /\ Len(log) >= 4
                  /\ Cardinality(fs) = 1
                  /\ \A f \in fs : f.content = doc
            /\ calls # << >> =>
                  LET dir == IF calls[1].cwd = None THEN ProcessCwd
                             ELSE Resolve(ProcessCwd, calls[1].cwd)
                  IN  fs = { [path |-> Resolve(dir, calls[1].doc), content |-> doc] }
            /\ pc = "returned" => fs # {}

C10_Witness ==
    /\ caller = "export_to" /\ pc = "returned"
    /\ calls # << >>
    /\ calls[1].cwd # None
    /\ Compile(circuit) # circuit

====
